---------------------------- MODULE Spec2Model ----------------------------
(***************************************************************************)
(* Model of config/config.go: Config.Validate and Config.validateService.  *)
(*                                                                         *)
(* A Config is loaded once, then Validate is called on it (up to MaxCalls  *)
(* times).  Validate ranges over Go maps; Go leaves the iteration order of *)
(* a map unspecified and changes it from one range statement to the next,  *)
(* so every call draws one order per map.  Each call records the error it  *)
(* returned and the components whose own Validate it invoked.              *)
(***************************************************************************)
EXTENDS Naturals, Sequences, FiniteSets

VARIABLES cfg, results

vars == <<cfg, results>>

(***************************************************************************)
(* Bounds of the model.                                                    *)
(***************************************************************************)
MaxCalls == 2      \* calls of Validate on the loaded Config
MaxRefs == 2       \* length of a list of component references

(***************************************************************************)
(* Values.                                                                 *)
(***************************************************************************)
IDs == {"a", "b"}                  \* ComponentIDs a registry may hold
Unconfigured == {"c"}              \* a ComponentID no registry holds
PipelineIDs == {"p1", "p2"}        \* keys of Service.Pipelines

\* The nil interface value / nil error.
Nil == "nil"

\* A component's configuration, told apart by what its own Validate returns.
\* Registries hold component configurations and Pipelines hold pipelines: the
\* loader stores no nil value in either map.
ComponentCfgs == {"ok", "bad"}

TracesDataType == "traces"
MetricsDataType == "metrics"
LogsDataType == "logs"
DataTypes == {TracesDataType, MetricsDataType, LogsDataType}

Encodings == {"json", "console", "", "text", "JSON", "yaml"}

(***************************************************************************)
(* Errors.  NoError is Go's nil error; the others carry the arguments of   *)
(* the format string.                                                      *)
(***************************************************************************)
Err(kind, component, pipeline, arg) ==
    [kind |-> kind, component |-> component, pipeline |-> pipeline, arg |-> arg]

NoError == Err(Nil, "", "", "")
errMissingReceivers == Err("MissingReceivers", "", "", "")
errMissingExporters == Err("MissingExporters", "", "", "")
errMissingServicePipelines == Err("MissingPipelines", "", "", "")

\* The outcome of a call: the error returned and the components whose own
\* Validate ran, as <<class, id>> pairs.
Ret(err, invoked) == [err |-> err, invoked |-> invoked]

(***************************************************************************)
(* Go built-ins.                                                           *)
(***************************************************************************)
\* len(m) of a map
MapLen(m) == Cardinality(DOMAIN m)

\* m[ref] of a map of interface values: nil when the key is absent
Lookup(m, ref) == IF ref \in DOMAIN m THEN m[ref] ELSE Nil

\* the orders in which a range statement may visit the keys of m
RangeOrders(m) ==
    LET n == Cardinality(DOMAIN m) IN
    {o \in [1..n -> DOMAIN m] : \A i, j \in 1..n : o[i] = o[j] => i = j}

(***************************************************************************)
(* validatable.Validate of one component configuration.                    *)
(***************************************************************************)
componentValidate(c) == IF c = "bad" THEN "invalid" ELSE Nil

(***************************************************************************)
(* ServiceTelemetryLogs.validate and ServiceTelemetry.validate             *)
(***************************************************************************)
\* Faulty variant (sensitivity of C5): the comparison ignores case.
validateLogsAnyCase(srvTL) ==
    IF srvTL.Encoding \notin {"json", "console", "JSON"}
    THEN Err("InvalidTelemetryEncoding", "", "", srvTL.Encoding)
    ELSE NoError

\* Faulty variant (sensitivity of C4): "console" is refused.
validateLogsJsonOnly(srvTL) ==
    IF srvTL.Encoding # "json"
    THEN Err("InvalidTelemetryEncoding", "", "", srvTL.Encoding)
    ELSE NoError

validateLogs(srvTL) ==
    IF srvTL.Encoding # "json" /\ srvTL.Encoding # "console"
    THEN Err("InvalidTelemetryEncoding", "", "", srvTL.Encoding)
    ELSE NoError

validateTelemetry(srvT) == validateLogs(srvT.Logs)

(***************************************************************************)
(* One "for id, c := range registry { c.Validate() }" loop of              *)
(* Config.Validate, visiting the keys in the given order.                  *)
(***************************************************************************)
\* Faulty variant (sensitivity of C10): the last entry visited is not validated.
RECURSIVE rangeValidateSkipLast(_, _, _)
rangeValidateSkipLast(registry, order, class) ==
    IF Len(order) <= 1 THEN Ret(NoError, {})
    ELSE LET id == Head(order)
             e == componentValidate(registry[id])
         IN IF e # Nil
            THEN Ret(Err("InvalidComponentConfig", class, "", id), {<<class, id>>})
            ELSE LET rest == rangeValidateSkipLast(registry, Tail(order), class)
                 IN Ret(rest.err, {<<class, id>>} \cup rest.invoked)

RECURSIVE rangeValidate(_, _, _)
rangeValidate(registry, order, class) ==
    IF order = <<>> THEN Ret(NoError, {})
    ELSE LET id == Head(order)
             e == componentValidate(registry[id])
         IN IF e # Nil
            THEN Ret(Err("InvalidComponentConfig", class, "", id), {<<class, id>>})
            ELSE LET rest == rangeValidate(registry, Tail(order), class)
                 IN Ret(rest.err, {<<class, id>>} \cup rest.invoked)

(***************************************************************************)
(* "for _, ref := range refs { if registry[ref] == nil { return ... } }":  *)
(* the first reference of the list that the registry does not hold, or Nil *)
(***************************************************************************)
\* Faulty variant (sensitivity of C3): only the first reference is looked up.
firstUnknownHeadOnly(refs, registry) ==
    IF refs = <<>> THEN Nil
    ELSE IF Lookup(registry, Head(refs)) = Nil THEN Head(refs)
    ELSE Nil

RECURSIVE firstUnknown(_, _)
firstUnknown(refs, registry) ==
    IF refs = <<>> THEN Nil
    ELSE IF Lookup(registry, Head(refs)) = Nil THEN Head(refs)
    ELSE firstUnknown(Tail(refs), registry)

(***************************************************************************)
(* The body of the loop over Service.Pipelines in validateService.         *)
(***************************************************************************)
\* Faulty variant (sensitivity of C8): processors are checked before receivers.
validatePipelineProcessorsFirst(c, pipeline) ==
    IF firstUnknown(pipeline.Processors, c.Processors) # Nil
    THEN Err("UnknownProcessorReference", "", pipeline.Name,
             firstUnknown(pipeline.Processors, c.Processors))
    ELSE IF Len(pipeline.Receivers) = 0
    THEN Err("EmptyPipelineReceivers", "", pipeline.Name, "")
    ELSE IF firstUnknown(pipeline.Receivers, c.Receivers) # Nil
    THEN Err("UnknownReceiverReference", "", pipeline.Name,
             firstUnknown(pipeline.Receivers, c.Receivers))
    ELSE IF Len(pipeline.Exporters) = 0
    THEN Err("EmptyPipelineExporters", "", pipeline.Name, "")
    ELSE IF firstUnknown(pipeline.Exporters, c.Exporters) # Nil
    THEN Err("UnknownExporterReference", "", pipeline.Name,
             firstUnknown(pipeline.Exporters, c.Exporters))
    ELSE NoError

validatePipeline(c, pipeline) ==
    IF Len(pipeline.Receivers) = 0
    THEN Err("EmptyPipelineReceivers", "", pipeline.Name, "")
    ELSE IF firstUnknown(pipeline.Receivers, c.Receivers) # Nil
    THEN Err("UnknownReceiverReference", "", pipeline.Name,
             firstUnknown(pipeline.Receivers, c.Receivers))
    ELSE IF firstUnknown(pipeline.Processors, c.Processors) # Nil
    THEN Err("UnknownProcessorReference", "", pipeline.Name,
             firstUnknown(pipeline.Processors, c.Processors))
    ELSE IF Len(pipeline.Exporters) = 0
    THEN Err("EmptyPipelineExporters", "", pipeline.Name, "")
    ELSE IF firstUnknown(pipeline.Exporters, c.Exporters) # Nil
    THEN Err("UnknownExporterReference", "", pipeline.Name,
             firstUnknown(pipeline.Exporters, c.Exporters))
    ELSE NoError

\* Faulty variant (sensitivity of C9): the last pipeline visited is not checked.
RECURSIVE rangePipelinesSkipLast(_, _)
rangePipelinesSkipLast(c, order) ==
    IF Len(order) <= 1 THEN NoError
    ELSE LET e == validatePipeline(c, c.Service.Pipelines[Head(order)])
         IN IF e # NoError THEN e ELSE rangePipelinesSkipLast(c, Tail(order))

\* The loop over Service.Pipelines, visiting the keys in the given order.
RECURSIVE rangePipelines(_, _)
rangePipelines(c, order) ==
    IF order = <<>> THEN NoError
    ELSE LET e == validatePipeline(c, c.Service.Pipelines[Head(order)])
         IN IF e # NoError THEN e ELSE rangePipelines(c, Tail(order))

(***************************************************************************)
(* Config.validateService                                                  *)
(***************************************************************************)
\* Faulty variant (sensitivity of C2): extension references before telemetry.
validateServiceExtensionsFirst(c, pipelineOrder) ==
    IF firstUnknown(c.Service.Extensions, c.Extensions) # Nil
    THEN Err("UnknownExtensionReference", "", "",
             firstUnknown(c.Service.Extensions, c.Extensions))
    ELSE IF validateTelemetry(c.Service.Telemetry) # NoError
    THEN validateTelemetry(c.Service.Telemetry)
    ELSE IF MapLen(c.Service.Pipelines) = 0
    THEN errMissingServicePipelines
    ELSE rangePipelines(c, pipelineOrder)

\* Faulty variant (sensitivity of C7): an empty Service.Pipelines is let through.
validateServicePipelinesOptional(c, pipelineOrder) ==
    IF validateTelemetry(c.Service.Telemetry) # NoError
    THEN validateTelemetry(c.Service.Telemetry)
    ELSE IF firstUnknown(c.Service.Extensions, c.Extensions) # Nil
    THEN Err("UnknownExtensionReference", "", "",
             firstUnknown(c.Service.Extensions, c.Extensions))
    ELSE rangePipelines(c, pipelineOrder)

validateService(c, pipelineOrder) ==
    IF validateTelemetry(c.Service.Telemetry) # NoError
    THEN validateTelemetry(c.Service.Telemetry)
    ELSE IF firstUnknown(c.Service.Extensions, c.Extensions) # Nil
    THEN Err("UnknownExtensionReference", "", "",
             firstUnknown(c.Service.Extensions, c.Extensions))
    ELSE IF MapLen(c.Service.Pipelines) = 0
    THEN errMissingServicePipelines
    ELSE rangePipelines(c, pipelineOrder)

(***************************************************************************)
(* Config.Validate.  ord gives the order each range statement visits its   *)
(* map in.                                                                 *)
(***************************************************************************)
\* Faulty variant (sensitivity of C1): exporters are counted before receivers.
ValidateExportersFirst(c, ord) ==
    IF MapLen(c.Exporters) = 0 THEN Ret(errMissingExporters, {})
    ELSE IF MapLen(c.Receivers) = 0 THEN Ret(errMissingReceivers, {})
    ELSE LET r == rangeValidate(c.Receivers, ord.receivers, "receiver") IN
    IF r.err # NoError THEN r
    ELSE LET e == rangeValidate(c.Exporters, ord.exporters, "exporter") IN
    IF e.err # NoError THEN Ret(e.err, r.invoked \cup e.invoked)
    ELSE LET p == rangeValidate(c.Processors, ord.processors, "processor") IN
    IF p.err # NoError THEN Ret(p.err, r.invoked \cup e.invoked \cup p.invoked)
    ELSE LET x == rangeValidate(c.Extensions, ord.extensions, "extension")
             all == r.invoked \cup e.invoked \cup p.invoked \cup x.invoked IN
    IF x.err # NoError THEN Ret(x.err, all)
    ELSE Ret(validateService(c, ord.pipelines), all)

\* Faulty variant (sensitivity of C6): an empty Exporters registry is let through.
ValidateExportersOptional(c, ord) ==
    IF MapLen(c.Receivers) = 0 THEN Ret(errMissingReceivers, {})
    ELSE LET r == rangeValidate(c.Receivers, ord.receivers, "receiver") IN
    IF r.err # NoError THEN r
    ELSE LET e == rangeValidate(c.Exporters, ord.exporters, "exporter") IN
    IF e.err # NoError THEN Ret(e.err, r.invoked \cup e.invoked)
    ELSE LET p == rangeValidate(c.Processors, ord.processors, "processor") IN
    IF p.err # NoError THEN Ret(p.err, r.invoked \cup e.invoked \cup p.invoked)
    ELSE LET x == rangeValidate(c.Extensions, ord.extensions, "extension")
             all == r.invoked \cup e.invoked \cup p.invoked \cup x.invoked IN
    IF x.err # NoError THEN Ret(x.err, all)
    ELSE Ret(validateService(c, ord.pipelines), all)

Validate(c, ord) ==
    IF MapLen(c.Receivers) = 0 THEN Ret(errMissingReceivers, {})
    ELSE LET r == rangeValidate(c.Receivers, ord.receivers, "receiver") IN
    IF r.err # NoError THEN r
    ELSE IF MapLen(c.Exporters) = 0 THEN Ret(errMissingExporters, r.invoked)
    ELSE LET e == rangeValidate(c.Exporters, ord.exporters, "exporter") IN
    IF e.err # NoError THEN Ret(e.err, r.invoked \cup e.invoked)
    ELSE LET p == rangeValidate(c.Processors, ord.processors, "processor") IN
    IF p.err # NoError THEN Ret(p.err, r.invoked \cup e.invoked \cup p.invoked)
    ELSE LET x == rangeValidate(c.Extensions, ord.extensions, "extension")
             all == r.invoked \cup e.invoked \cup p.invoked \cup x.invoked IN
    IF x.err # NoError THEN Ret(x.err, all)
    ELSE Ret(validateService(c, ord.pipelines), all)

\* The iteration orders one call of Validate on c may meet.
Orders(c) ==
    [receivers : RangeOrders(c.Receivers),
     exporters : RangeOrders(c.Exporters),
     processors : RangeOrders(c.Processors),
     extensions : RangeOrders(c.Extensions),
     pipelines : RangeOrders(c.Service.Pipelines)]

(***************************************************************************)
(* The configurations loaded.                                              *)
(***************************************************************************)
Registries == UNION {[S -> ComponentCfgs] : S \in SUBSET IDs}

RefLists(S, n) == UNION {[1..k -> S] : k \in 0..n}

\* At most one reference.
ShortRefLists(S) == {<<>>} \cup {<<i>> : i \in S}

MkPipeline(name, type, recv, proc, exp) ==
    [Name |-> name, InputType |-> type,
     Receivers |-> recv, Processors |-> proc, Exporters |-> exp]

MkService(encoding, extensions, pipelines) ==
    [Telemetry |-> [Logs |-> [Encoding |-> encoding]],
     Extensions |-> extensions,
     Pipelines |-> pipelines]

MkConfig(recv, exp, proc, ext, service) ==
    [Receivers |-> recv, Exporters |-> exp, Processors |-> proc,
     Extensions |-> ext, Service |-> service]

NoPipelines == [k \in {} |-> Nil]
OnePipeline(p) == [k \in {"p1"} |-> p]
TwoPipelines(p, q) == [k \in PipelineIDs |-> IF k = "p1" THEN p ELSE q]

\* Scenario A of the specification: one receiver, no processor, one exporter.
PlainPipeline(type) == MkPipeline("p1", type, <<"a">>, <<>>, <<"a">>)

\* A registry holding the valid component "a" and nothing else.
PlainRegistry == [k \in {"a"} |-> "ok"]

\* Registries over the single ComponentID "a".
SmallRegistries == UNION {[S -> ComponentCfgs] : S \in SUBSET {"a"}}

\* Services that pass or fail each of the telemetry, extension-reference and
\* pipelines-present checks.
ServiceShapes ==
    {MkService(enc, sx, pl) :
        enc \in {"json", "yaml"}, sx \in {<<>>, <<"a">>},
        pl \in {NoPipelines, OnePipeline(PlainPipeline(TracesDataType))}}

\* Every combination of receivers and exporters.
IsReceiverExporterConfig(c) ==
    \E r \in Registries, e \in Registries, p \in SmallRegistries,
       x \in SmallRegistries, s \in ServiceShapes :
        c = MkConfig(r, e, p, x, s)

\* Every combination of processors and extensions.
IsProcessorExtensionConfig(c) ==
    \E r \in SmallRegistries, e \in SmallRegistries, p \in Registries,
       x \in Registries, s \in ServiceShapes :
        c = MkConfig(r, e, p, x, s)

\* Every telemetry encoding, list of service extensions and input type.
IsServiceConfig(c) ==
    \E enc \in Encodings, sx \in RefLists(IDs, MaxRefs),
       pl \in {NoPipelines}
              \cup {OnePipeline(PlainPipeline(t)) : t \in DataTypes \cup {"spans"}} :
        c = MkConfig(PlainRegistry, PlainRegistry, PlainRegistry, PlainRegistry,
                     MkService(enc, sx, pl))

\* One pipeline with every combination of reference lists.
IsPipelineConfig(c) ==
    \E r \in RefLists(IDs \cup Unconfigured, MaxRefs),
       p \in RefLists(IDs, MaxRefs), e \in RefLists(IDs, MaxRefs) :
        c = MkConfig(PlainRegistry, PlainRegistry, PlainRegistry, PlainRegistry,
                     MkService("json", <<>>,
                         OnePipeline(MkPipeline("p1", TracesDataType, r, p, e))))

\* Two pipelines; only the receivers of the first may be more than one.
IsTwoPipelineConfig(c) ==
    \E r \in RefLists(IDs, MaxRefs),
       p \in ShortRefLists(IDs), e \in ShortRefLists(IDs),
       r2 \in ShortRefLists(IDs), p2 \in ShortRefLists(IDs),
       e2 \in ShortRefLists(IDs) :
        c = MkConfig(PlainRegistry, PlainRegistry, PlainRegistry, PlainRegistry,
                     MkService("console", <<"a">>,
                         TwoPipelines(MkPipeline("p1", TracesDataType, r, p, e),
                                      MkPipeline("p2", MetricsDataType, r2, p2, e2))))

(***************************************************************************)
(* The state machine.                                                      *)
(***************************************************************************)
Init ==
    /\ \/ IsReceiverExporterConfig(cfg)
       \/ IsProcessorExtensionConfig(cfg)
       \/ IsServiceConfig(cfg)
       \/ IsPipelineConfig(cfg)
       \/ IsTwoPipelineConfig(cfg)
    /\ results = <<>>

\* One call of cfg.Validate().  The method reads cfg and assigns nothing.
CallValidate ==
    /\ Len(results) < MaxCalls
    /\ \E ord \in Orders(cfg) : results' = Append(results, Validate(cfg, ord))
    /\ cfg' = cfg

Next == CallValidate

Spec == Init /\ [][Next]_vars

(***************************************************************************)
(* What the properties speak of: the violations of the specification's     *)
(* check list, stated on the Config alone.                                 *)
(***************************************************************************)
Fails(registry) == \E k \in DOMAIN registry : registry[k] = "bad"

Dangling(refs, registry) == {refs[i] : i \in DOMAIN refs} \ DOMAIN registry

\* step 1: receivers empty;  2: a receiver's Validate fails;  3: exporters
\* empty;  4, 5, 6: an exporter's, processor's, extension's Validate fails;
\* 7 (a): telemetry encoding;  8 (b): service extension reference;
\* 9 (c): no pipeline.
Violates(c, step) ==
    CASE step = 1 -> DOMAIN c.Receivers = {}
      [] step = 2 -> Fails(c.Receivers)
      [] step = 3 -> DOMAIN c.Exporters = {}
      [] step = 4 -> Fails(c.Exporters)
      [] step = 5 -> Fails(c.Processors)
      [] step = 6 -> Fails(c.Extensions)
      [] step = 7 -> c.Service.Telemetry.Logs.Encoding \notin {"json", "console"}
      [] step = 8 -> Dangling(c.Service.Extensions, c.Extensions) # {}
      [] step = 9 -> DOMAIN c.Service.Pipelines = {}

Steps == 1..9

ViolatedSteps(c) == {s \in Steps : Violates(c, s)}

\* The step an error reports; 0 for no error, 10 for a per-pipeline check (d).
StepOf(err) ==
    CASE err.kind = Nil -> 0
      [] err.kind = "MissingReceivers" -> 1
      [] err.kind = "InvalidComponentConfig" /\ err.component = "receiver" -> 2
      [] err.kind = "MissingExporters" -> 3
      [] err.kind = "InvalidComponentConfig" /\ err.component = "exporter" -> 4
      [] err.kind = "InvalidComponentConfig" /\ err.component = "processor" -> 5
      [] err.kind = "InvalidComponentConfig" /\ err.component = "extension" -> 6
      [] err.kind = "InvalidTelemetryEncoding" -> 7
      [] err.kind = "UnknownExtensionReference" -> 8
      [] err.kind = "MissingPipelines" -> 9
      [] OTHER -> 10

PipelinesOf(c) == {c.Service.Pipelines[k] : k \in DOMAIN c.Service.Pipelines}

\* The pipeline passes every per-pipeline check of (d).
PipelineSound(c, p) ==
    /\ p.Receivers # <<>>
    /\ p.Exporters # <<>>
    /\ Dangling(p.Receivers, c.Receivers) = {}
    /\ Dangling(p.Processors, c.Processors) = {}
    /\ Dangling(p.Exporters, c.Exporters) = {}

Returned == {results[i].err : i \in DOMAIN results}

(***************************************************************************)
(* C1: with an empty Receivers registry every call returns MissingReceivers*)
(* and invokes no component's own Validate, whatever else the Config holds.*)
(***************************************************************************)
C1_EmptyReceivers ==
    \A i \in DOMAIN results :
        DOMAIN cfg.Receivers = {} =>
            /\ results[i].err = errMissingReceivers
            /\ results[i].invoked = {}

\* Scenario C: no receiver, a failing exporter, processor and extension, and
\* a service that fails too.
C1_Witness ==
    /\ results # <<>>
    /\ DOMAIN cfg.Receivers = {}
    /\ Fails(cfg.Exporters)
    /\ Fails(cfg.Processors)
    /\ Fails(cfg.Extensions)
    /\ {7, 9} \subseteq ViolatedSteps(cfg)

(***************************************************************************)
(* C2: when the Config violates one or more of the steps 1-6, a-c, the     *)
(* error returned is of the kind of the earliest violated step.            *)
(***************************************************************************)
C2_FirstViolation ==
    \A i \in DOMAIN results :
        \A s \in ViolatedSteps(cfg) :
            (\A t \in ViolatedSteps(cfg) : s <= t) => StepOf(results[i].err) = s

\* A call on a Config that violates steps 4, 6, 7 and 9 at once.
C2_Witness ==
    /\ results # <<>>
    /\ ViolatedSteps(cfg) = {4, 6, 7, 9}

(***************************************************************************)
(* C3: a Config that Validate accepts has no empty required set and no     *)
(* dangling reference.                                                     *)
(***************************************************************************)
C3_AcceptedIsSound ==
    NoError \in Returned =>
        /\ DOMAIN cfg.Receivers # {}
        /\ DOMAIN cfg.Exporters # {}
        /\ DOMAIN cfg.Service.Pipelines # {}
        /\ Dangling(cfg.Service.Extensions, cfg.Extensions) = {}
        /\ \A p \in PipelinesOf(cfg) : PipelineSound(cfg, p)

\* Two accepted pipelines, one of them naming two receivers and a processor.
C3_Witness ==
    /\ NoError \in Returned
    /\ Cardinality(DOMAIN cfg.Service.Pipelines) = 2
    /\ \E p \in PipelinesOf(cfg) : Len(p.Receivers) = 2 /\ p.Processors # <<>>

(***************************************************************************)
(* C4: a Config that violates none of the steps and whose pipelines all    *)
(* pass the per-pipeline checks is accepted, also with empty Processors    *)
(* and Extensions registries and pipelines without processors.             *)
(***************************************************************************)
C4_SoundIsAccepted ==
    (/\ ViolatedSteps(cfg) = {}
     /\ \A p \in PipelinesOf(cfg) : PipelineSound(cfg, p))
        => Returned \subseteq {NoError}

\* Scenario A, accepted.
C4_Witness ==
    /\ NoError \in Returned
    /\ DOMAIN cfg.Processors = {}
    /\ DOMAIN cfg.Extensions = {}
    /\ \A p \in PipelinesOf(cfg) : p.Processors = <<>>

(***************************************************************************)
(* C5 (as stated): Validate accepts no Config with a telemetry encoding    *)
(* other than "json" or "console", nor one with a pipeline whose InputType *)
(* is not a supported data type.                                           *)
(***************************************************************************)
C5_AsStated ==
    NoError \in Returned =>
        /\ cfg.Service.Telemetry.Logs.Encoding \in {"json", "console"}
        /\ \A p \in PipelinesOf(cfg) : p.InputType \in DataTypes

(***************************************************************************)
(* C5 (amended): every call on a Config whose telemetry encoding is not    *)
(* exactly "json" or "console" returns an error.                           *)
(***************************************************************************)
C5_EncodingRejected ==
    cfg.Service.Telemetry.Logs.Encoding \notin {"json", "console"}
        => NoError \notin Returned

\* "JSON" is the only fault of the Config, and it is reported.
C5_Witness ==
    /\ Err("InvalidTelemetryEncoding", "", "", "JSON") \in Returned
    /\ ViolatedSteps(cfg) = {7}
    /\ \A p \in PipelinesOf(cfg) : PipelineSound(cfg, p)

(***************************************************************************)
(* C6 (as stated): with Exporters empty and Receivers non-empty every call *)
(* returns MissingExporters.                                               *)
(***************************************************************************)
C6_AsStated ==
    (DOMAIN cfg.Exporters = {} /\ DOMAIN cfg.Receivers # {})
        => Returned \subseteq {errMissingExporters}

(***************************************************************************)
(* C6 (amended): with Exporters empty, Receivers non-empty and no receiver *)
(* failing its own Validate, every call returns MissingExporters.          *)
(***************************************************************************)
C6_EmptyExporters ==
    (DOMAIN cfg.Exporters = {} /\ DOMAIN cfg.Receivers # {} /\ ~Fails(cfg.Receivers))
        => Returned \subseteq {errMissingExporters}

C6_Witness ==
    /\ errMissingExporters \in Returned
    /\ Cardinality(DOMAIN cfg.Receivers) = 2
    /\ {5, 7, 9} \subseteq ViolatedSteps(cfg)

(***************************************************************************)
(* C7 (as stated): with Receivers and Exporters non-empty and no pipeline  *)
(* every call returns MissingPipelines.                                    *)
(***************************************************************************)
C7_AsStated ==
    (/\ DOMAIN cfg.Receivers # {}
     /\ DOMAIN cfg.Exporters # {}
     /\ DOMAIN cfg.Service.Pipelines = {})
        => Returned \subseteq {errMissingServicePipelines}

(***************************************************************************)
(* C7 (amended): with Receivers and Exporters non-empty, no component      *)
(* failing its own Validate, a telemetry encoding of "json" or "console",  *)
(* every service extension configured, and no pipeline, every call returns *)
(* MissingPipelines.                                                       *)
(***************************************************************************)
C7_EmptyPipelines ==
    ViolatedSteps(cfg) = {9} => Returned \subseteq {errMissingServicePipelines}

C7_Witness ==
    /\ errMissingServicePipelines \in Returned
    /\ cfg.Service.Extensions # <<>>
    /\ Cardinality(DOMAIN cfg.Processors) = 2

(***************************************************************************)
(* C8 (as stated): if a pipeline lists a receiver that Receivers does not  *)
(* hold, every call returns UnknownReceiverReference naming that pipeline  *)
(* and such a receiver.                                                    *)
(***************************************************************************)
C8_AsStated ==
    \A p \in PipelinesOf(cfg) :
        Dangling(p.Receivers, cfg.Receivers) # {} =>
            \A e \in Returned :
                /\ e.kind = "UnknownReceiverReference"
                /\ e.pipeline = p.Name
                /\ e.arg \in Dangling(p.Receivers, cfg.Receivers)

\* The first element of refs that the registry does not hold.
FirstDangling(refs, registry) ==
    LET i == CHOOSE i \in DOMAIN refs :
                 /\ refs[i] \notin DOMAIN registry
                 /\ \A j \in 1..(i - 1) : refs[j] \in DOMAIN registry
    IN refs[i]

(***************************************************************************)
(* C8 (amended): if the Config violates none of the steps 1-6, a-c, a      *)
(* pipeline P lists a receiver that Receivers does not hold, and every     *)
(* other pipeline passes the per-pipeline checks, then every call returns  *)
(* UnknownReceiverReference naming P and the first such receiver of P's    *)
(* list, also when P lists unknown processors or exporters.                *)
(***************************************************************************)
C8_UnknownReceiver ==
    \A p \in PipelinesOf(cfg) :
        (/\ ViolatedSteps(cfg) = {}
         /\ Dangling(p.Receivers, cfg.Receivers) # {}
         /\ \A q \in PipelinesOf(cfg) \ {p} : PipelineSound(cfg, q))
            => Returned \subseteq
                 {Err("UnknownReceiverReference", "", p.Name,
                      FirstDangling(p.Receivers, cfg.Receivers))}

\* Two different unknown receivers, an unknown processor and an unknown
\* exporter in one pipeline: the first unknown receiver is reported.
C8_Witness ==
    \E p \in PipelinesOf(cfg) :
        /\ Cardinality(Dangling(p.Receivers, cfg.Receivers)) = 2
        /\ Dangling(p.Processors, cfg.Processors) # {}
        /\ Dangling(p.Exporters, cfg.Exporters) # {}
        /\ Err("UnknownReceiverReference", "", p.Name, p.Receivers[1]) \in Returned

\* The kind of a failure: the error without the names it carries.
KindOf(err) == <<err.kind, err.component>>

(***************************************************************************)
(* C9 (as stated): all calls on one Config return the same kind of result, *)
(* whatever order the maps are visited in.                                 *)
(***************************************************************************)
C9_AsStated ==
    \A e, f \in Returned : KindOf(e) = KindOf(f)

\* The kinds of the first failed check of the pipelines that fail one.
PipelineFailureKinds(c) ==
    {KindOf(validatePipeline(c, p)) : p \in PipelinesOf(c)} \ {KindOf(NoError)}

(***************************************************************************)
(* C9 (amended): all calls on one Config succeed or all fail, whatever     *)
(* order the maps are visited in; they fail with the same kind unless two  *)
(* pipelines fail per-pipeline checks of different kinds, and then with    *)
(* the kind of the first failed check of one of those pipelines.           *)
(***************************************************************************)
C9_OrderIndependentVerdict ==
    \A e, f \in Returned :
        /\ (e = NoError) <=> (f = NoError)
        /\ KindOf(e) # KindOf(f) =>
              /\ Cardinality(PipelineFailureKinds(cfg)) > 1
              /\ {KindOf(e), KindOf(f)} \subseteq PipelineFailureKinds(cfg)

\* Two calls that visited the maps in different orders and named different
\* components, with the same kind of failure.
C9_Witness ==
    \E e, f \in Returned : e # f /\ KindOf(e) = KindOf(f)

(***************************************************************************)
(* C10 (as stated): two calls on the same Config return the same result:   *)
(* the same success, or the same error kind, pipeline name and identifier. *)
(***************************************************************************)
C10_AsStated ==
    \A e, f \in Returned : e = f

\* No map holds two entries that fail.
AtMostOneFailing(c) ==
    /\ \A registry \in {c.Receivers, c.Exporters, c.Processors, c.Extensions} :
          Cardinality({k \in DOMAIN registry : registry[k] = "bad"}) <= 1
    /\ Cardinality({k \in DOMAIN c.Service.Pipelines :
                       ~PipelineSound(c, c.Service.Pipelines[k])}) <= 1

(***************************************************************************)
(* C10 (amended): a call leaves the Config unchanged; two calls on the     *)
(* same Config both succeed or both fail, and return the same error (kind, *)
(* pipeline name and identifier) when no registry holds two components     *)
(* that fail their own Validate and no two pipelines fail a per-pipeline   *)
(* check.                                                                  *)
(***************************************************************************)
C10_Repeatable ==
    [][/\ cfg' = cfg
       /\ \A i, j \in DOMAIN results' :
             /\ (results'[i].err = NoError) <=> (results'[j].err = NoError)
             /\ AtMostOneFailing(cfg) => results'[i].err = results'[j].err]_vars

\* Two calls returned the same per-pipeline error.
C10_Witness ==
    /\ Len(results) >= 2
    /\ results[1].err = results[2].err
    /\ results[1].err.kind = "UnknownExporterReference"
    /\ Cardinality(DOMAIN cfg.Service.Pipelines) = 2

=============================================================================
